---- MODULE Spec2Model ----
(***************************************************************************)
(* Model of the stock logger (src/stock_logger.py) and its driver          *)
(* (src/main.py).                                                          *)
(*                                                                         *)
(* Clock values (now, last_update) are whole hours.  Bar and candle times  *)
(* are whole minutes on an absolute axis; a day has 1440 of them.          *)
(* External collaborators (reference service, candle service, renderer,    *)
(* bar stream) are inputs chosen with \E in the actions.                   *)
(***************************************************************************)
EXTENDS Integers, Sequences, FiniteSets, TLC

VARIABLES
    pc,             \* position of main(): start, constructed, subscribed, exited, crashed, stopped
    now,            \* wall clock, hours
    figi,           \* StockLogger.figi
    issued_shares,  \* StockLogger.issued_shares
    last_update,    \* StockLogger.last_update
    times,          \* StockLogger.times
    prices,         \* StockLogger.prices
    delivered,      \* number of bar events handed to on_new_bar
    wellFormed,     \* number of those events whose payload was well formed
    lastSuccessAt,  \* clock time at which the reference service last answered successfully
    last,           \* what the most recent on_new_bar call did
    vol             \* what the most recent stand-alone _get_daily_volume call did

vars == <<pc, now, figi, issued_shares, last_update, times, prices,
          delivered, wellFormed, lastSuccessAt, last, vol>>

-----------------------------------------------------------------------------
(* Bounds *)

MaxEvents == 3
MaxClock == 47
MaxCandles == 3

-----------------------------------------------------------------------------
(* Program constants *)

None == -1
NoFigi == "None"
REFRESH_HOURS == 23
DAY_START_HOUR == 6
DAY_START_MINUTE == 50
MSK_OFFSET_HOURS == 3
MINUTES_PER_DAY == 1440

-----------------------------------------------------------------------------
(* Inputs *)

Figis == {"BBG004730N88"}
IssueSizes == {0, 3}
InitOutcomes == {"found", "not_found", "upstream_error", "last_price_error"}
ClockSteps == {0, 22, 23}
CallDurations == {0, 1}
\* bars of 05:00, 10:15 and 10:20 MSK of day 0
Bars == {[time |-> 300, close |-> 2], [time |-> 615, close |-> 5], [time |-> 620, close |-> 2]}
\* the time and close fields as on_new_bar sees them when it never reads them
NoBar == [time |-> 0, close |-> 0]
Shapes == {"ok", "no_guid", "unknown_guid", "no_data", "no_time", "no_close", "bad_close"}
Malformed == Shapes \ {"ok"}
RefreshOutcomes == {"ok", "fail"}

\* candles carry UTC times: 03:50 and 07:15 of day 0, 03:50 of day 1
Candles == {[time |-> 230, volume |-> 1], [time |-> 435, volume |-> 4],
            [time |-> 1670, volume |-> 2], [time |-> 230, volume |-> 4]}

BoundedSeq(S, n) == UNION {[1..k -> S] : k \in 0..n}

\* candle sequences the candle service may return to on_new_bar
BarCandleLists == {<<>>, <<[time |-> 230, volume |-> 1], [time |-> 1670, volume |-> 2]>>}

-----------------------------------------------------------------------------
(* Pure helpers *)

Truthy(x) == x # None /\ x # 0

EmptyDict == [l \in {} |-> 0]

\* datetime.replace(hour=6, minute=50, second=0, microsecond=0)
DayStart(dt) == (dt \div MINUTES_PER_DAY) * MINUTES_PER_DAY + DAY_START_HOUR * 60 + DAY_START_MINUTE

\* astimezone(timezone.utc) of a Moscow time
ToUtc(dt) == dt - MSK_OFFSET_HOURS * 60

\* candle.time.astimezone(UTC+3).strftime("%H:%M")
time_label(t) == LET local_time == t + MSK_OFFSET_HOURS * 60
                 IN  <<(local_time \div 60) % 24, local_time % 60>>

BucketAddOverwrite(acc, label, volume) ==
    [x \in DOMAIN acc \cup {label} |-> IF x = label THEN volume ELSE acc[x]]

\* volumes_by_minute[time_label] = volumes_by_minute.get(time_label, 0) + candle.volume
BucketAdd(acc, label, volume) ==
    [x \in DOMAIN acc \cup {label} |->
        IF x = label
        THEN (IF label \in DOMAIN acc THEN acc[label] ELSE 0) + volume
        ELSE acc[x]]

RECURSIVE BucketVolumes(_, _)
BucketVolumes(candles, acc) ==
    IF candles = <<>> THEN acc
    ELSE BucketVolumes(Tail(candles),
                       BucketAdd(acc, time_label(Head(candles).time), Head(candles).volume))

\* sum(daily_volume.values())
RECURSIVE SumValues(_)
SumValues(d) ==
    IF DOMAIN d = {} THEN 0
    ELSE LET k == CHOOSE x \in DOMAIN d : TRUE
         IN  d[k] + SumValues([x \in DOMAIN d \ {k} |-> d[x]])

-----------------------------------------------------------------------------
(* StockLogger._initialize_stock_data *)

\* outcome: what the reference service answers for the ticker
_initialize_stock_data(outcome, share, now_) ==
    IF outcome = "found"
    THEN [raised |-> FALSE, figi |-> share.figi, issued_shares |-> share.issue_size,
          last_update |-> now_]
    ELSE [raised |-> TRUE, figi |-> NoFigi, issued_shares |-> None, last_update |-> None]

-----------------------------------------------------------------------------
(* StockLogger._refresh_stock_data *)

RefreshDueInverted(now_, last_update_) == ~((now_ - last_update_) > REFRESH_HOURS)

\* negation of the early return: (now - last_update) < timedelta(hours=23)
RefreshDue(now_, last_update_) == ~((now_ - last_update_) < REFRESH_HOURS)

RefreshFailureClears(issued_, last_update_, now_) ==
    [issued_shares |-> None, last_update |-> now_]

\* the except branch: only logs
RefreshFailure(issued_, last_update_, now_) ==
    [issued_shares |-> issued_, last_update |-> last_update_]

\* outcome: answer of the reference service, dur: hours the call takes
_refresh_stock_data(issued_, last_update_, now_, outcome, issue_size, dur) ==
    IF ~RefreshDue(now_, last_update_)
    THEN [issued_shares |-> issued_, last_update |-> last_update_,
          called |-> FALSE, failed |-> FALSE, callAt |-> 0]
    ELSE IF outcome = "ok"
         THEN [issued_shares |-> issue_size, last_update |-> now_ + dur,
               called |-> TRUE, failed |-> FALSE, callAt |-> now_]
         ELSE LET f == RefreshFailure(issued_, last_update_, now_)
              IN  [issued_shares |-> f.issued_shares, last_update |-> f.last_update,
                   called |-> TRUE, failed |-> TRUE, callAt |-> now_]

-----------------------------------------------------------------------------
(* StockLogger._get_daily_volume *)

NoVolumeCall == [result |-> EmptyDict, raised |-> FALSE, called |-> FALSE, failed |-> FALSE,
                 from_ |-> 0, to |-> 0, candles |-> <<>>]

FetchFailurePropagates(from_, to) ==
    [result |-> EmptyDict, raised |-> TRUE, called |-> TRUE, failed |-> TRUE,
     from_ |-> from_, to |-> to, candles |-> <<>>]

\* the except branch: logs and returns {}
FetchFailure(from_, to) ==
    [result |-> EmptyDict, raised |-> FALSE, called |-> TRUE, failed |-> TRUE,
     from_ |-> from_, to |-> to, candles |-> <<>>]

\* fetch: answer of the candle service for the requested range
_get_daily_volume(figi_, target_dt, fetch) ==
    IF figi_ = NoFigi \/ figi_ = ""
    THEN NoVolumeCall
    ELSE LET start == ToUtc(DayStart(target_dt))
             end   == ToUtc(target_dt)
         IN  IF fetch.outcome = "fail"
             THEN FetchFailure(start, end)
             ELSE [result |-> BucketVolumes(fetch.candles, EmptyDict), raised |-> FALSE,
                   called |-> TRUE, failed |-> FALSE,
                   from_ |-> start, to |-> end, candles |-> fetch.candles]

-----------------------------------------------------------------------------
(* StockLogger.on_new_bar *)

PayloadErrorNoFormat(shape) ==
    IF shape \in {"ok", "bad_close"} THEN "none" ELSE "KeyError"

\* first exception raised by the payload accesses and the price formatting
PayloadError(shape) ==
    CASE shape = "ok" -> "none"
      [] shape \in {"no_guid", "unknown_guid", "no_data", "no_time", "no_close"} -> "KeyError"
      [] shape = "bad_close" -> "ValueError"

ReachesAppendLate(payloadExc, laterExc) == payloadExc = "none" /\ laterExc = "none"

\* the two appends follow the payload accesses and the log line, and precede
\* the capitalization, volume and render steps
ReachesAppend(payloadExc, laterExc) == payloadExc = "none"

CapConditionAlways(issued_) == TRUE

\* if self.issued_shares:
CapCondition(issued_) == Truthy(issued_)

\* market_cap = self.issued_shares * close_price
MarketCap(issued_, close_price) == issued_ * close_price

CaughtKeyErrorOnly(exc) == exc = "KeyError"

\* except Exception as e
Caught(exc) == exc \in {"KeyError", "ValueError", "VolumeError", "RenderError"}

NoEvent ==
    [shape |-> "none", close |-> 0, exc |-> "none", escaped |-> FALSE,
     appended |-> FALSE, afterError |-> FALSE,
     refCalled |-> FALSE, refFailed |-> FALSE, refCallAt |-> 0, refPrevSuccess |-> 0,
     capEmitted |-> FALSE, market_cap |-> 0,
     fetchCalled |-> FALSE, fetchFailed |-> FALSE, fetchFrom |-> 0, fetchTo |-> 0,
     daily_volume |-> EmptyDict, volReported |-> FALSE, volTotal |-> 0,
     rendered |-> FALSE]

\* self: the logger's fields; response: the bar payload; env: the clock and
\* the answers of the collaborators during this call
on_new_bar(self, response, env) ==
    LET r    == _refresh_stock_data(self.issued_shares, self.last_update, env.now,
                                    env.refresh, env.issue_size, env.dur)
        perr == PayloadError(response.shape)
        v    == IF perr = "none"
                THEN _get_daily_volume(self.figi, response.time, env.fetch)
                ELSE NoVolumeCall
        laterExc == IF perr # "none" THEN "none"
                    ELSE IF v.raised THEN "VolumeError"
                    ELSE IF env.renderFails THEN "RenderError"
                    ELSE "none"
        exc      == IF perr # "none" THEN perr ELSE laterExc
        appended == ReachesAppend(perr, laterExc)
        capEmitted  == perr = "none" /\ CapCondition(r.issued_shares)
        volReported == perr = "none" /\ ~v.raised
    IN  [issued_shares |-> r.issued_shares,
         last_update   |-> r.last_update,
         times  |-> IF appended THEN Append(self.times, response.time) ELSE self.times,
         prices |-> IF appended THEN Append(self.prices, response.close) ELSE self.prices,
         refOk  |-> r.called /\ ~r.failed,
         refCalled |-> r.called,
         last |->
           [shape |-> response.shape, close |-> response.close,
            exc |-> exc, escaped |-> (exc # "none" /\ ~Caught(exc)),
            appended |-> appended, afterError |-> self.lastExc # "none",
            refCalled |-> r.called, refFailed |-> r.failed, refCallAt |-> r.callAt,
            refPrevSuccess |-> self.lastSuccessAt,
            capEmitted |-> capEmitted,
            market_cap |-> IF capEmitted THEN MarketCap(r.issued_shares, response.close) ELSE 0,
            fetchCalled |-> v.called, fetchFailed |-> v.failed,
            fetchFrom |-> v.from_, fetchTo |-> v.to,
            daily_volume |-> v.result,
            volReported |-> volReported,
            volTotal |-> IF volReported THEN SumValues(v.result) ELSE 0,
            rendered |-> (perr = "none" /\ laterExc = "none")]]

-----------------------------------------------------------------------------
(* The driver, main() *)

InitFailureContinues == "constructed"

\* except Exception: logger.error(...); sys.exit(1)
InitFailurePc == "exited"

NoVol == [dt |-> 0] @@ NoVolumeCall

Init ==
    /\ pc = "start"
    /\ now = 0
    /\ figi = NoFigi
    /\ issued_shares = None
    /\ last_update = None
    /\ times = <<>>
    /\ prices = <<>>
    /\ delivered = 0
    /\ wellFormed = 0
    /\ lastSuccessAt = None
    /\ last = NoEvent
    /\ vol = NoVol

\* main, the try block around the constructor
MainInit ==
    /\ pc = "start"
    /\ \E outcome \in InitOutcomes, f \in Figis, n \in IssueSizes :
         LET r == _initialize_stock_data(outcome, [figi |-> f, issue_size |-> n], now)
         IN  IF r.raised
             THEN /\ pc' = InitFailurePc
                  /\ UNCHANGED <<figi, issued_shares, last_update, lastSuccessAt>>
             ELSE /\ pc' = "constructed"
                  /\ figi' = r.figi
                  /\ issued_shares' = r.issued_shares
                  /\ last_update' = r.last_update
                  /\ lastSuccessAt' = now
    /\ UNCHANGED <<now, times, prices, delivered, wellFormed, last, vol>>

\* main, registering the handler and subscribing to the bars
MainSubscribe ==
    /\ pc = "constructed"
    /\ pc' = "subscribed"
    /\ UNCHANGED <<now, figi, issued_shares, last_update, times, prices,
                   delivered, wellFormed, lastSuccessAt, last, vol>>

\* the bar stream delivers one bar to the handler; bars arrive in increasing
\* time order
OnNewBar ==
    /\ pc = "subscribed"
    /\ delivered < MaxEvents
    /\ \E step \in ClockSteps, shape \in Shapes, ro \in RefreshOutcomes :
       \E dur \in CallDurations,
          n \in (IF ro = "ok" THEN IssueSizes ELSE {0}),
          bar \in (IF shape = "ok"
                   THEN {b \in Bars : times = <<>> \/ b.time > times[Len(times)]}
                   ELSE {NoBar}),
          fetch \in (IF shape = "ok"
                     THEN {[outcome |-> "fail", candles |-> <<>>]}
                          \cup {[outcome |-> "ok", candles |-> cs] : cs \in BarCandleLists}
                     ELSE {[outcome |-> "fail", candles |-> <<>>]}),
          rf \in (IF shape = "ok" THEN BOOLEAN ELSE {FALSE}) :
         /\ now + step + dur <= MaxClock
         /\ LET self == [figi |-> figi, issued_shares |-> issued_shares,
                         last_update |-> last_update, times |-> times, prices |-> prices,
                         lastSuccessAt |-> lastSuccessAt, lastExc |-> last.exc]
                response == [shape |-> shape, time |-> bar.time, close |-> bar.close]
                env == [now |-> now + step, refresh |-> ro, issue_size |-> n, dur |-> dur,
                        fetch |-> fetch, renderFails |-> rf]
                o == on_new_bar(self, response, env)
            IN  /\ issued_shares' = o.issued_shares
                /\ last_update' = o.last_update
                /\ times' = o.times
                /\ prices' = o.prices
                /\ last' = o.last
                /\ now' = IF o.refCalled THEN now + step + dur ELSE now + step
                /\ lastSuccessAt' = IF o.refOk THEN now + step + dur ELSE lastSuccessAt
                /\ pc' = IF o.last.escaped THEN "crashed" ELSE "subscribed"
                /\ wellFormed' = IF shape = "ok" THEN wellFormed + 1 ELSE wellFormed
    /\ delivered' = delivered + 1
    /\ UNCHANGED <<figi, vol>>

\* main, the finally block after the user presses Enter
MainStop ==
    /\ pc = "subscribed"
    /\ pc' = "stopped"
    /\ UNCHANGED <<now, figi, issued_shares, last_update, times, prices,
                   delivered, wellFormed, lastSuccessAt, last, vol>>

Next == MainInit \/ MainSubscribe \/ OnNewBar \/ MainStop

Spec == Init /\ [][Next]_vars

-----------------------------------------------------------------------------
(* _get_daily_volume on its own, over all short candle sequences *)

\* 05:00, 06:50 and 10:15 MSK of day 0
VolTimes == {300, 410, 615}

InitVol ==
    /\ pc = "subscribed"
    /\ now = 0
    /\ figi \in Figis
    /\ issued_shares \in IssueSizes
    /\ last_update = 0
    /\ times = <<>>
    /\ prices = <<>>
    /\ delivered = 0
    /\ wellFormed = 0
    /\ lastSuccessAt = 0
    /\ last = NoEvent
    /\ vol = NoVol

VolCompute ==
    /\ \E dt \in VolTimes,
          fetch \in {[outcome |-> "fail", candles |-> <<>>]}
                    \cup {[outcome |-> "ok", candles |-> cs] : cs \in BoundedSeq(Candles, MaxCandles)} :
         vol' = [dt |-> dt] @@ _get_daily_volume(figi, dt, fetch)
    /\ UNCHANGED <<pc, now, figi, issued_shares, last_update, times, prices,
                   delivered, wellFormed, lastSuccessAt, last>>

NextVol == VolCompute

SpecVolume == InitVol /\ [][NextVol]_vars

-----------------------------------------------------------------------------
(* Properties *)

Perms(s) == {[i \in 1..Len(s) |-> s[f[i]]] : f \in Permutations(1..Len(s))}

RECURSIVE SeqVolumeSum(_)
SeqVolumeSum(candles) ==
    IF candles = <<>> THEN 0 ELSE Head(candles).volume + SeqVolumeSum(Tail(candles))

\* C1: after any number of delivered bars, times and prices each hold exactly
\* one entry per well-formed bar, whatever the refresh, the candle fetch and
\* the renderer did.
SeriesLengthIsWellFormedCount ==
    /\ Len(times) = wellFormed
    /\ Len(prices) = wellFormed

SeriesLengthWitness ==
    /\ wellFormed = 3
    /\ Len(times) = 3
    /\ last.fetchFailed
    /\ last.exc = "RenderError"

\* C2: no exception leaves on_new_bar; the stream is never torn down by the
\* handler, so the next bar can still be delivered.
NoExceptionEscapes ==
    /\ ~last.escaped
    /\ pc # "crashed"

NoExceptionEscapesWitness ==
    /\ pc = "subscribed"
    /\ last.afterError
    /\ last.shape = "ok"
    /\ last.exc = "none"
    /\ last.rendered

\* C3: when the candle fetch fails, _get_daily_volume returns the empty
\* dictionary, the volume printed for that bar is 0 and on_new_bar does not raise.
FetchFailureReportsZero ==
    last.fetchFailed =>
        /\ last.daily_volume = EmptyDict
        /\ last.volReported
        /\ last.volTotal = 0
        /\ ~last.escaped
        /\ pc # "crashed"

FetchFailureWitness ==
    /\ last.fetchCalled
    /\ last.fetchFailed
    /\ last.volReported
    /\ last.rendered

\* C4: every call the refresh step makes to the reference service happens at
\* least 23 hours after the most recent successful initialization or refresh.
RefreshAtMostOncePer23Hours ==
    last.refCalled => last.refCallAt - last.refPrevSuccess >= REFRESH_HOURS

RefreshWitness ==
    /\ last.refCalled
    /\ ~last.refFailed
    /\ last.refPrevSuccess > 0

\* C5: a failed refresh leaves issued_shares, figi and last_update as they
\* were, does not raise, and the capitalization of that bar uses the stale
\* issued share count.
FailedRefreshKeepsStaleData ==
    [][(delivered' = delivered + 1 /\ last'.refFailed) =>
          /\ issued_shares' = issued_shares
          /\ figi' = figi
          /\ last_update' = last_update
          /\ ~last'.escaped
          /\ (last'.shape = "ok" =>
                /\ last'.capEmitted = Truthy(issued_shares)
                /\ (last'.capEmitted => last'.market_cap = issued_shares * last'.close))]_vars

FailedRefreshWitness ==
    /\ last.refCalled
    /\ last.refFailed
    /\ last.shape = "ok"
    /\ last.capEmitted

\* C6: a failed initialization ends the process before it subscribes and
\* before any bar is handled; whenever bars can be or have been handled, figi,
\* issued_shares and last_update hold what a successful initialization set.
InitializationPrecedesBars ==
    /\ (pc \in {"subscribed", "crashed", "stopped"} \/ delivered > 0) =>
          /\ figi \in Figis
          /\ issued_shares # None
          /\ last_update # None
          /\ lastSuccessAt # None
    /\ pc = "exited" =>
          /\ delivered = 0
          /\ last = NoEvent
          /\ figi = NoFigi
          /\ ~ENABLED Next

InitializationFailedWitness ==
    /\ pc = "exited"
    /\ figi = NoFigi

\* C7: the candle service is never asked for a range whose start is after its end.
NoInvertedRange ==
    last.fetchCalled => last.fetchFrom <= last.fetchTo

\* C8, as stated: for every bar, a capitalization is emitted exactly when the
\* issued share count is set (is not None), and it is issued_shares * close.
CapitalizationIffIssuedSet ==
    delivered > 0 =>
        /\ last.capEmitted = (issued_shares # None)
        /\ (last.capEmitted => last.market_cap = issued_shares * last.close)

\* C8, amended: for every well-formed bar, a capitalization is emitted exactly
\* when the issued share count is neither None nor 0, and it is
\* issued_shares * close; a malformed bar emits none.
CapitalizationIffIssuedNonZero ==
    /\ last.shape = "ok" =>
          /\ last.capEmitted = (issued_shares # None /\ issued_shares # 0)
          /\ (last.capEmitted => last.market_cap = issued_shares * last.close)
    /\ last.shape \in Malformed => ~last.capEmitted

CapitalizationWitness ==
    /\ last.shape = "ok"
    /\ last.capEmitted
    /\ last.market_cap = 15

\* C9: a malformed bar leaves times and prices exactly as they were, of equal
\* length, is logged as an error, and produces no capitalization, volume or
\* chart update.
MalformedBarIsDropped ==
    [][(delivered' = delivered + 1 /\ last'.shape \in Malformed) =>
          /\ times' = times
          /\ prices' = prices
          /\ Len(times') = Len(prices')
          /\ last'.exc # "none"
          /\ ~last'.capEmitted
          /\ ~last'.fetchCalled
          /\ ~last'.volReported
          /\ ~last'.rendered]_vars

MalformedBarWitness ==
    /\ last.shape = "bad_close"
    /\ last.exc = "ValueError"
    /\ Len(times) = 2
    /\ Len(prices) = 2

\* C10: every permutation of the fetched candles gives the same buckets, and
\* the total is the sum of the volumes of all fetched candles, candles that
\* share a minute label included.
VolumeIsOrderIndependent ==
    (vol.called /\ ~vol.failed) =>
        /\ \A p \in Perms(vol.candles) : BucketVolumes(p, EmptyDict) = vol.result
        /\ SumValues(vol.result) = SeqVolumeSum(vol.candles)

VolumeWitness ==
    /\ vol.called
    /\ ~vol.failed
    /\ Len(vol.candles) = 3
    /\ \E i, j \in 1..Len(vol.candles) :
          /\ i < j
          /\ vol.candles[i].time # vol.candles[j].time
          /\ time_label(vol.candles[i].time) = time_label(vol.candles[j].time)

====
